---- MODULE Spec2Model ----
(***************************************************************************)
(* Model of the context-folding MCP server (src/server/index.js): the      *)
(* fold index persisted in state.json, the per-fold detail files, and the  *)
(* two request handlers (list-tools and call-tool).                        *)
(*                                                                         *)
(* Texts are TLA+ strings, so result texts are built by concatenation as   *)
(* the template literals of the source build them.  A fold id argument is  *)
(* kept as the sequence of its "/"-separated segments (what path.join      *)
(* sees); IdText gives the string the rest of the code sees.  A path is    *)
(* absolute: the sequence of its segments below the root.  Tool calls      *)
(* carry arguments of the shape the tool's inputSchema declares.           *)
(***************************************************************************)
EXTENDS Integers, Sequences, FiniteSets, TLC

VARIABLES
    stateFile,    \* content of STATE_FILE: missing, unparseable or a JSON store
    detailFiles,  \* the files on disk besides STATE_FILE: absolute path -> entry
    request,      \* the request handled last
    response,     \* the handler's return value for it
    saved,        \* whether handling it wrote STATE_FILE
    estimator,    \* a call of estimateTokens: its argument and return value
    transport,    \* the byte stream of the protocol server and what it decoded
    loop          \* the requests of a batch: pending, being handled, handled

vars == <<stateFile, detailFiles, request, response, saved, estimator, transport, loop>>

\* ---- bounds of the model ------------------------------------------------

\* largest number of records in an initial index
MaxFolds == 2

\* largest length of a text given to estimateTokens on its own
MaxTextLen == 60

\* ---- sample data ----------------------------------------------------------

\* ids the external compaction writer may have put in the index
CanonicalIds == {"fold-001", "fold-002", "fold-003"}

\* fold_id arguments of calls, as path segments: the canonical ids, the
\* display form of list_folds, an id with path components that stays in
\* FOLDS_DIR and one that climbs to the working directory
CallIds ==
    {<<"fold-001">>, <<"fold-002">>, <<"fold-003">>,
     <<"F003">>, <<"..", "folds", "fold-001">>, <<"..", "..", "..", "README">>}

\* summary arguments of write_summary calls
SummaryArgs == {"", "db>impl: pool.cfg | ok"}

\* detail text of each detail file that exists
DetailText(id) ==
    CASE id = "fold-001" -> "full text here"
      [] id = "fold-002" -> "x"
      [] OTHER -> "stack trace: TypeError at auth.mid.ts:42"

\* tool names of calls: the catalog's, the guide of the specification's
\* table, and a name no table has
CallNames ==
    {"unfold_section", "fold_section", "list_folds", "write_summary",
     "guide", "frobnicate"}

\* ---- paths (src/server/index.js:27-29) ------------------------------------

\* process.cwd(): the directory the server was started in
Cwd == <<"work", "origami">>

FOLD_DIR == Cwd \o <<".claude", "context-folding">>
STATE_FILE == FOLD_DIR \o <<"state.json">>
FOLDS_DIR == FOLD_DIR \o <<"folds">>

\* the string a segment sequence stands for
RECURSIVE IdText(_)
IdText(segs) ==
    IF Len(segs) = 0 THEN ""
    ELSE IF Len(segs) = 1 THEN segs[1]
    ELSE segs[1] \o "/" \o IdText(Tail(segs))

\* `${foldId}.md`: the extension lands on the last segment
WithExtension(segs) ==
    [i \in 1..Len(segs) |-> IF i = Len(segs) THEN segs[i] \o ".md" ELSE segs[i]]

\* path.normalize on the segments of an absolute path: "." and empty
\* segments drop, ".." removes the segment before it and stays at the root
RECURSIVE Normalize(_, _)
Normalize(done, rest) ==
    IF Len(rest) = 0 THEN done
    ELSE LET s == Head(rest) IN
         IF s = "." \/ s = "" THEN Normalize(done, Tail(rest))
         ELSE IF s = ".."
              THEN IF Len(done) > 0
                   THEN Normalize(SubSeq(done, 1, Len(done) - 1), Tail(rest))
                   ELSE Normalize(done, Tail(rest))
         ELSE Normalize(Append(done, s), Tail(rest))

\* path.join(FOLDS_DIR, `${foldId}.md`)
DetailPath(foldId) == Normalize(<<>>, FOLDS_DIR \o WithExtension(foldId))

\* whether p is a proper prefix of q
IsAbove(p, q) == Len(p) < Len(q) /\ SubSeq(q, 1, Len(p)) = p

\* whether a regular file exists at p
IsDetailFile(files, p) == p \in DOMAIN files /\ files[p].kind = "file"

\* whether a directory exists at p: the root, a directory entry, or a
\* directory some entry lies in
IsDirectory(files, p) ==
    \/ p = <<>>
    \/ p \in DOMAIN files /\ files[p].kind = "dir"
    \/ \E q \in DOMAIN files : IsAbove(p, q)

\* whether p passes through a regular file
IsBelowFile(files, p) == \E q \in DOMAIN files : files[q].kind = "file" /\ IsAbove(q, p)

\* the files on disk while STATE_FILE holds file: the state file is kept
\* as what ParseStateFile reads of it
Disk(file, files) ==
    IF file.kind = "missing" THEN files
    ELSE (STATE_FILE :> [kind |-> "file", data |-> file]) @@ files

\* a thrown exception, as the value of the expression that threw
Thrown(code) == [thrown |-> code]
Threw(v) == "thrown" \in DOMAIN v

\* faulty variant of existsSync: the guard that never fails
existsSyncAlways(files, p) == TRUE

\* fs.existsSync(p): true for whatever exists at p, file or directory
existsSync(files, p) == IsDetailFile(files, p) \/ IsDirectory(files, p)

\* fs.readFileSync(p, "utf-8"): the text of a file, or the error thrown
readFileSync(files, p) ==
    IF IsDetailFile(files, p) THEN [data |-> files[p].data]
    ELSE IF IsDirectory(files, p) THEN Thrown("EISDIR")
    ELSE IF IsBelowFile(files, p) THEN Thrown("ENOTDIR")
    ELSE Thrown("ENOENT")

\* ---- state helpers (src/server/index.js:33-57) ----------------------------

\* JSON null
Null == "null"

EmptyStore ==
    [version |-> 1, session_id |-> Null, total_summary_tokens |-> 0, folds |-> <<>>]

\* JSON.parse(fs.readFileSync(STATE_FILE, "utf-8")): the store, or what
\* readFileSync (no file) or JSON.parse (no JSON text) throws
ParseStateFile(file) ==
    IF file.kind = "missing" THEN Thrown("ENOENT")
    ELSE IF file.kind = "corrupt" THEN Thrown("SyntaxError")
    ELSE file.store

\* faulty variant of loadState: no try/catch around the read and the parse
loadStateNoCatch(file) == ParseStateFile(file)

loadState(file) ==
    LET parsed == ParseStateFile(file)
    IN IF Threw(parsed) THEN EmptyStore ELSE parsed

\* faulty variant of stringify: a fresh object is written around the folds
stringifyFreshHeader(state) ==
    [kind |-> "json",
     store |-> [EmptyStore EXCEPT
                   !.folds = state.folds,
                   !.total_summary_tokens = state.total_summary_tokens]]

\* JSON.stringify(state, null, 2), kept as what ParseStateFile reads of it
stringify(state) == [kind |-> "json", store |-> state]

\* the directories on the way to p, p included
Ancestors(p) == { SubSeq(p, 1, n) : n \in 1..Len(p) }

\* fs.mkdirSync(p, {recursive: true}): the disk with p and the directories
\* missing on the way to it, or the error thrown
mkdirSync(disk, p) ==
    IF IsDetailFile(disk, p) THEN Thrown("EEXIST")
    ELSE IF IsBelowFile(disk, p) THEN Thrown("ENOTDIR")
    ELSE LET missing == { q \in Ancestors(p) : ~IsDirectory(disk, q) }
         IN [disk |-> [q \in DOMAIN disk \cup missing |->
                          IF q \in missing THEN [kind |-> "dir"] ELSE disk[q]]]

\* fs.writeFileSync(p, data): the disk with the file written, or the error
\* thrown
writeFileSync(disk, p, data) ==
    IF IsDirectory(disk, p) THEN Thrown("EISDIR")
    ELSE IF IsBelowFile(disk, p) THEN Thrown("ENOTDIR")
    ELSE IF ~IsDirectory(disk, SubSeq(p, 1, Len(p) - 1)) THEN Thrown("ENOENT")
    ELSE [disk |-> [q \in DOMAIN disk \cup {p} |->
                       IF q = p THEN [kind |-> "file", data |-> data] ELSE disk[q]]]

\* an exception thrown on a disk that earlier statements left as it is
ThrownOn(thrown, disk) == [thrown |-> thrown.thrown, disk |-> disk]

\* saveState(state) on a disk: the disk after it, with the error thrown if
\* a statement threw (the statements before it have run)
saveState(state, disk) ==
    LET made == mkdirSync(disk, FOLD_DIR)
    IN IF Threw(made) THEN ThrownOn(made, disk)
       ELSE LET madeFolds == mkdirSync(made.disk, FOLDS_DIR)
            IN IF Threw(madeFolds) THEN ThrownOn(madeFolds, made.disk)
               ELSE LET written == writeFileSync(madeFolds.disk, STATE_FILE, stringify(state))
                    IN IF Threw(written) THEN ThrownOn(written, madeFolds.disk)
                       ELSE written

\* what a disk holds at STATE_FILE, and what it holds besides
StateFileOf(disk) ==
    IF IsDetailFile(disk, STATE_FILE) THEN disk[STATE_FILE].data ELSE [kind |-> "missing"]

OtherFiles(disk) ==
    [q \in {r \in DOMAIN disk : r # STATE_FILE \/ disk[r].kind # "file"} |-> disk[q]]

\* rec[k] = v, the field added when absent
SetField(rec, k, v) == [x \in DOMAIN rec \cup {k} |-> IF x = k THEN v ELSE rec[x]]

\* `${rec[k]}`: the text, "undefined" when absent
TextField(rec, k) == IF k \in DOMAIN rec THEN rec[k] ELSE "undefined"

Max(a, b) == IF a >= b THEN a ELSE b

\* Math.round(n / 3.75) = floor(n / 3.75 + 1/2) = floor((200 n + 375) / 750)
RoundDiv375(n) == (200 * n + 375) \div 750

\* faulty variant of estimateTokens: four characters a token
estimateTokensDiv4(text) == Max(1, (Len(text) + 2) \div 4)

\* faulty variant of estimateTokens: Math.floor for Math.round
estimateTokensFloor(text) == Max(1, (4 * Len(text)) \div 15)

\* an absent text (undefined): a string no text of the model equals
Undefined == "<undefined>"

\* text || ""
OrEmptyText(text) == IF text = Undefined THEN "" ELSE text

estimateTokens(text) == Max(1, RoundDiv375(Len(OrEmptyText(text))))

\* position in state.folds of the first record with that id; 0 for null
findFold(state, foldId) ==
    LET hits == {i \in 1..Len(state.folds) : state.folds[i].id = foldId}
    IN IF hits = {} THEN 0
       ELSE CHOOSE i \in hits : \A j \in hits : i <= j

textResult(text) == [content |-> <<[type |-> "text", text |-> text]>>]

\* the reply to a request whose handler threw: a protocol-level error object
ProtocolError(thrown) == [error |-> [code |-> "InternalError", message |-> thrown.thrown]]

\* f[k] || 0
OrZero(f, k) == IF k \in DOMAIN f THEN f[k] ELSE 0

\* folds.reduce((s, f) => s + (f[k] || 0), 0)
RECURSIVE SumField(_, _)
SumField(folds, k) ==
    IF Len(folds) = 0 THEN 0
    ELSE OrZero(Head(folds), k) + SumField(Tail(folds), k)

\* ---- list tools (src/server/index.js:68-132) ------------------------------

ToolCatalog ==
    << [name |-> "unfold_section", properties |-> {"fold_id"}, required |-> {"fold_id"}],
       [name |-> "fold_section", properties |-> {"fold_id"}, required |-> {"fold_id"}],
       [name |-> "list_folds", properties |-> {}, required |-> {}],
       [name |-> "write_summary", properties |-> {"fold_id", "summary"},
        required |-> {"fold_id", "summary"}] >>

\* ---- call tool (src/server/index.js:136-238) ------------------------------
\* Each case gives the handler's return value (or the error reply, had it
\* thrown), the content of STATE_FILE and the other files after it, and
\* whether saveState wrote STATE_FILE.

Outcome(result, file, files, didSave) ==
    [result |-> result, file |-> file, files |-> files, saved |-> didSave]

\* the outcome of a case that ends with saveState(state) and a text result:
\* the handler rejects when saveState throws, the disk left as saveState
\* left it
SaveAndReturn(text, state, file, files) ==
    LET written == saveState(state, Disk(file, files))
    IN IF Threw(written)
       THEN Outcome(ProtocolError(written),
                    StateFileOf(written.disk), OtherFiles(written.disk), FALSE)
       ELSE Outcome(textResult(text), StateFileOf(written.disk), OtherFiles(written.disk), TRUE)

\* the case of the switch a tool name selects
SwitchCase(name) ==
    IF name \in {"unfold_section", "fold_section", "list_folds", "write_summary"}
    THEN name
    ELSE "default"

\* faulty variant of SetStatus: the record also moves to the front (most
\* recently touched first)
SetStatusMoveToFront(folds, i, status) ==
    <<[folds[i] EXCEPT !.status = status]>>
        \o SubSeq(folds, 1, i - 1) \o SubSeq(folds, i + 1, Len(folds))

\* faulty variant of SetStatus: every record gets the status
SetStatusOfAll(folds, i, status) ==
    [j \in 1..Len(folds) |-> [folds[j] EXCEPT !.status = status]]

\* faulty variant of SetStatus: the status is flipped, not set
SetStatusToggle(folds, i, status) ==
    [folds EXCEPT ![i].status = IF @ = "folded" THEN "unfolded" ELSE "folded"]

\* fold.status = status, on the record at position i
SetStatus(folds, i, status) == [folds EXCEPT ![i] = SetField(@, "status", status)]

\* `[${foldId} UNFOLDED - ${tokens} tokens]\n\n${detail}`
UnfoldedText(foldId, detail, tokens) ==
    "[" \o foldId \o " UNFOLDED - " \o ToString(tokens) \o " tokens]\n\n" \o detail

unfold_section(args, file, files) ==
    LET foldId == IdText(args.fold_id)
        detailPath == DetailPath(args.fold_id)
        disk == Disk(file, files)
    IN IF ~existsSync(disk, detailPath)
       THEN Outcome(textResult("Error: fold '" \o foldId \o "' not found on disk."),
                    file, files, FALSE)
       ELSE LET read == readFileSync(disk, detailPath)
                state == loadState(file)
            IN IF Threw(read) THEN Outcome(ProtocolError(read), file, files, FALSE)
               ELSE IF Threw(state) THEN Outcome(ProtocolError(state), file, files, FALSE)
               ELSE LET detail == read.data
                        fold == findFold(state, foldId)
                        text == UnfoldedText(foldId, detail, estimateTokens(detail))
                    IN IF fold # 0
                       THEN SaveAndReturn(text,
                                          [state EXCEPT
                                             !.folds = SetStatus(state.folds, fold, "unfolded")],
                                          file, files)
                       ELSE Outcome(textResult(text), file, files, FALSE)

fold_section(args, file, files) ==
    LET foldId == IdText(args.fold_id)
        state == loadState(file)
    IN IF Threw(state) THEN Outcome(ProtocolError(state), file, files, FALSE)
       ELSE LET fold == findFold(state, foldId)
            IN IF fold = 0
               THEN Outcome(textResult("Error: fold '" \o foldId \o "' not found in state."),
                            file, files, FALSE)
               ELSE SaveAndReturn("[" \o foldId \o " FOLDED]\nSummary: "
                                      \o TextField(state.folds[fold], "summary"),
                                  [state EXCEPT
                                     !.folds = SetStatus(state.folds, fold, "folded")],
                                  file, files)

\* String.prototype.toUpperCase on the ids and statuses of the model
toUpperCase(s) ==
    CASE s = "fold-001" -> "FOLD-001"
      [] s = "fold-002" -> "FOLD-002"
      [] s = "fold-003" -> "FOLD-003"
      [] s = "folded" -> "FOLDED"
      [] s = "unfolded" -> "UNFOLDED"

\* .replace("FOLD-", "F") on an upper-cased id of the model
ReplaceFoldPrefix(s) ==
    CASE s = "FOLD-001" -> "F001"
      [] s = "FOLD-002" -> "F002"
      [] s = "FOLD-003" -> "F003"
      [] OTHER -> s

\* Number.prototype.toFixed(2) of a score given in hundredths
toFixed2(h) ==
    ToString(h \div 100) \o "." \o ToString((h \div 10) % 10) \o ToString(h % 10)

\* names.join(", ")
RECURSIVE JoinComma(_)
JoinComma(names) ==
    IF Len(names) = 0 THEN ""
    ELSE IF Len(names) = 1 THEN names[1]
    ELSE names[1] \o ", " \o JoinComma(Tail(names))

\* the lines list_folds appends for one record
FoldEntry(fold) ==
    LET fid == ReplaceFoldPrefix(toUpperCase(fold.id))
        status == toUpperCase(fold.status)
        rel == toFixed2(OrZero(fold, "relevance_score"))
        files == IF "files_touched" \in DOMAIN fold /\ Len(fold.files_touched) > 0
                 THEN "  files: " \o JoinComma(fold.files_touched) \o "\n"
                 ELSE ""
    IN fid \o " | " \o status \o " | " \o ToString(OrZero(fold, "detail_tokens"))
           \o " tok | rel:" \o rel \o "\n"
           \o "  " \o TextField(fold, "summary") \o "\n"
           \o files
           \o "\n"

\* faulty variant of FoldEntries: newest record first
RECURSIVE FoldEntriesNewestFirst(_)
FoldEntriesNewestFirst(folds) ==
    IF Len(folds) = 0 THEN ""
    ELSE FoldEntriesNewestFirst(Tail(folds)) \o FoldEntry(Head(folds))

RECURSIVE FoldEntries(_)
FoldEntries(folds) ==
    IF Len(folds) = 0 THEN ""
    ELSE FoldEntry(Head(folds)) \o FoldEntries(Tail(folds))

\* faulty variant of list_folds: the store is written back after the load
list_foldsAndSave(file, files) ==
    LET state == loadState(file)
    IN IF Len(state.folds) = 0
       THEN SaveAndReturn("No folds stored yet.", state, file, files)
       ELSE SaveAndReturn("[FOLD INDEX - " \o ToString(Len(state.folds))
                              \o " sections, "
                              \o ToString(SumField(state.folds, "detail_tokens"))
                              \o " tokens stored]\n\n" \o FoldEntries(state.folds),
                          state, file, files)

list_folds(file, files) ==
    LET state == loadState(file)
    IN IF Threw(state) THEN Outcome(ProtocolError(state), file, files, FALSE)
       ELSE IF Len(state.folds) = 0
       THEN Outcome(textResult("No folds stored yet."), file, files, FALSE)
       ELSE IF \E i \in 1..Len(state.folds) :
                  {"id", "status"} \ DOMAIN state.folds[i] # {}
       THEN Outcome(ProtocolError(Thrown("TypeError")), file, files, FALSE)
       ELSE LET totalStored == SumField(state.folds, "detail_tokens")
                out == "[FOLD INDEX - " \o ToString(Len(state.folds)) \o " sections, "
                           \o ToString(totalStored) \o " tokens stored]\n\n"
                           \o FoldEntries(state.folds)
            IN Outcome(textResult(out), file, files, FALSE)

\* faulty variant of SetSummary: summary_tokens is not recomputed
SetSummaryKeepTokens(folds, i, summary) ==
    [folds EXCEPT ![i] =
        [k \in DOMAIN @ \cup {"summary", "summary_tokens"} |->
            IF k = "summary" THEN summary
            ELSE IF k = "summary_tokens" THEN OrZero(@, "summary_tokens")
            ELSE @[k]]]

\* fold.summary = summary; fold.summary_tokens = estimateTokens(summary),
\* on the record at position i
SetSummary(folds, i, summary) ==
    [folds EXCEPT ![i] =
        [k \in DOMAIN @ \cup {"summary", "summary_tokens"} |->
            IF k = "summary" THEN summary
            ELSE IF k = "summary_tokens" THEN estimateTokens(summary)
            ELSE @[k]]]

\* faulty variant of TotalSummaryTokens: the stored total plus the change
TotalByDelta(state, folds) ==
    state.total_summary_tokens + SumField(folds, "summary_tokens")
        - SumField(state.folds, "summary_tokens")

\* state.total_summary_tokens = state.folds.reduce(...), folds being
\* state.folds after the update
TotalSummaryTokens(state, folds) == SumField(folds, "summary_tokens")

write_summary(args, file, files) ==
    LET foldId == IdText(args.fold_id)
        summary == args.summary
        state == loadState(file)
    IN IF Threw(state) THEN Outcome(ProtocolError(state), file, files, FALSE)
       ELSE LET fold == findFold(state, foldId)
            IN IF fold = 0
               THEN Outcome(textResult("Error: fold '" \o foldId \o "' not found in state."),
                            file, files, FALSE)
               ELSE LET folds == SetSummary(state.folds, fold, summary)
                        after == SetField([state EXCEPT !.folds = folds],
                                          "total_summary_tokens",
                                          TotalSummaryTokens(state, folds))
                    IN SaveAndReturn("Summary updated for " \o foldId \o " ("
                                         \o ToString(folds[fold].summary_tokens)
                                         \o " tokens)",
                                     after, file, files)

\* faulty variant of unknown_tool: the default case throws
UnknownToolThrows(name) == ProtocolError(Thrown("Unknown tool: " \o name))

\* the default case
unknown_tool(name) == textResult("Unknown tool: " \o name)

\* ---- initial states -------------------------------------------------------

\* the attributes the external writer gave each record of the sample data:
\* detail_tokens, relevance_score (in hundredths) and files_touched
FixedAttributes(id) ==
    CASE id = "fold-001" ->
           [id |-> id, detail_tokens |-> 3200, relevance_score |-> 15,
            files_touched |-> <<"auth.mid.ts", "auth.svc.ts">>]
      [] id = "fold-002" ->
           [id |-> id, detail_tokens |-> 2800, relevance_score |-> 85,
            files_touched |-> <<>>]
      [] OTHER -> [id |-> id]

\* summary and summary_tokens as an index may hold them: never written, or
\* written with a count (5) that is not the estimate of the summary
SummaryFields ==
    { [summary |-> ""],
      [summary |-> "auth>fix", summary_tokens |-> 5] }

FoldRecord(id, status, sf) ==
    [k \in DOMAIN FixedAttributes(id) \cup {"status"} \cup DOMAIN sf |->
        IF k = "status" THEN status
        ELSE IF k \in DOMAIN sf THEN sf[k]
        ELSE FixedAttributes(id)[k]]

\* the records an index may hold; the summary of fold-003, the record with
\* only an id, was never written
FoldRecords ==
    { FoldRecord(x[1], x[2], x[3]) :
        x \in { y \in CanonicalIds \X {"folded", "unfolded"} \X SummaryFields :
                  y[1] = "fold-003" => y[3] = [summary |-> ""] } }

\* the sequence number of a canonical id
SequenceNumber(id) ==
    CASE id = "fold-001" -> 1
      [] id = "fold-002" -> 2
      [] id = "fold-003" -> 3

\* sequences of at most MaxFolds records, in the order the writer numbered
\* them (so with distinct ids)
FoldSeqs ==
    UNION { { fs \in [1..n -> FoldRecords] :
                \A i, j \in 1..n :
                    i < j => SequenceNumber(fs[i].id) < SequenceNumber(fs[j].id) } :
            n \in 0..MaxFolds }

SessionId == "\"sess-a1\""

\* the stores an index file may hold: total_summary_tokens is the sum of the
\* records' counts or a stale number (12)
Stores ==
    { [version |-> 1, session_id |-> SessionId, total_summary_tokens |-> t, folds |-> fs] :
        fs \in FoldSeqs, t \in {12} } \cup
    { [version |-> 1, session_id |-> SessionId,
       total_summary_tokens |-> SumField(fs, "summary_tokens"), folds |-> fs] :
        fs \in FoldSeqs }

StateFiles ==
    {[kind |-> "missing"], [kind |-> "corrupt"]} \cup
    {[kind |-> "json", store |-> st] : st \in Stores}

DetailFileName(id) == id \o ".md"

DetailFilePath(id) == FOLDS_DIR \o <<DetailFileName(id)>>

\* the README of the project in the working directory
ReadmePath == Cwd \o <<"README.md">>
ReadmeText == "# Origami\n"

\* the disk holds the project's README and either no FOLDS_DIR yet or, in
\* FOLDS_DIR, the detail file of fold-001 alone or of every id
DetailDirs ==
    { [p \in {DetailFilePath(id) : id \in present} \cup {ReadmePath} |->
         IF p = ReadmePath
         THEN [kind |-> "file", data |-> ReadmeText]
         ELSE [kind |-> "file",
               data |-> DetailText(CHOOSE id \in present : DetailFilePath(id) = p)]] :
      present \in {{}, {"fold-001"}, CanonicalIds} }

NoRequest == [method |-> "none"]
NoResponse == [none |-> TRUE]

\* the parts of the state a specification does not use
NoEstimate == [called |-> FALSE]
NoTransport == [open |-> FALSE]
NoLoop == [batch |-> FALSE]

Init ==
    /\ stateFile \in StateFiles
    /\ detailFiles \in DetailDirs
    /\ request = NoRequest
    /\ response = NoResponse
    /\ saved = FALSE
    /\ estimator = NoEstimate
    /\ transport = NoTransport
    /\ loop = NoLoop

\* ---- requests -------------------------------------------------------------

CallRequest(name, args) == [method |-> "tools/call", name |-> name, arguments |-> args]

Handled(req, out) ==
    /\ request' = req
    /\ response' = out.result
    /\ stateFile' = out.file
    /\ detailFiles' = out.files
    /\ saved' = out.saved
    /\ UNCHANGED <<estimator, transport, loop>>

ListTools ==
    /\ request' = [method |-> "tools/list"]
    /\ response' = [tools |-> ToolCatalog]
    /\ saved' = FALSE
    /\ UNCHANGED <<stateFile, detailFiles, estimator, transport, loop>>

UnfoldSection ==
    \E name \in CallNames, id \in CallIds :
        /\ SwitchCase(name) = "unfold_section"
        /\ LET args == [fold_id |-> id]
           IN Handled(CallRequest(name, args), unfold_section(args, stateFile, detailFiles))

FoldSection ==
    \E name \in CallNames, id \in CallIds :
        /\ SwitchCase(name) = "fold_section"
        /\ LET args == [fold_id |-> id]
           IN Handled(CallRequest(name, args), fold_section(args, stateFile, detailFiles))

ListFolds ==
    \E name \in CallNames :
        /\ SwitchCase(name) = "list_folds"
        /\ Handled(CallRequest(name, <<>>), list_folds(stateFile, detailFiles))

WriteSummary ==
    \E name \in CallNames, id \in CallIds, summary \in SummaryArgs :
        /\ SwitchCase(name) = "write_summary"
        /\ LET args == [fold_id |-> id, summary |-> summary]
           IN Handled(CallRequest(name, args), write_summary(args, stateFile, detailFiles))

UnknownTool ==
    \E name \in CallNames :
        /\ SwitchCase(name) = "default"
        /\ Handled(CallRequest(name, <<>>), Outcome(unknown_tool(name), stateFile, detailFiles, FALSE))

Next ==
    \/ ListTools
    \/ UnfoldSection
    \/ FoldSection
    \/ ListFolds
    \/ WriteSummary
    \/ UnknownTool

Spec == Init /\ [][Next]_vars

\* ---- estimateTokens on its own (src/server/index.js:47-49) -----------------

\* a text of n characters
RECURSIVE TextOfLength(_)
TextOfLength(n) == IF n = 0 THEN "" ELSE "a" \o TextOfLength(n - 1)

\* the arguments: every text of up to MaxTextLen characters, and no text
EstimateArgs == {TextOfLength(n) : n \in 0..MaxTextLen} \cup {Undefined}

\* no file, no request: the state of the server the other specifications
\* leave alone
ServerIdle ==
    /\ stateFile = [kind |-> "missing"]
    /\ detailFiles = <<>>
    /\ request = NoRequest
    /\ response = NoResponse
    /\ saved = FALSE

InitEstimate ==
    /\ ServerIdle
    /\ estimator \in {[called |-> FALSE, text |-> t] : t \in EstimateArgs}
    /\ transport = NoTransport
    /\ loop = NoLoop

Estimate ==
    /\ ~estimator.called
    /\ estimator' = [called |-> TRUE, text |-> estimator.text,
                     tokens |-> estimateTokens(estimator.text)]
    /\ UNCHANGED <<stateFile, detailFiles, request, response, saved, transport, loop>>

NextEstimate == Estimate

SpecEstimate == InitEstimate /\ [][NextEstimate]_vars

\* ---- the framing of the protocol server -------------------------------------
\* A message on the byte stream is a header block ended by a blank line and
\* holding a numeric byte-length field, then a body of exactly that many
\* bytes. A byte is a one-character string, a chunk a sequence of bytes.

CR == "\r"
LF == "\n"

\* the blank line that ends the header block
HeaderTerminator == <<CR, LF, CR, LF>>

\* the name of the byte-length field and its separator
LengthField == <<"L", ":">>

DigitChars == {"0", "1", "2", "3", "4", "5", "6", "7", "8", "9"}

DigitValue(c) == CHOOSE d \in 0..9 : ToString(d) = c

\* the decimal digits of n, most significant first
RECURSIVE Digits(_)
Digits(n) ==
    IF n < 10 THEN <<ToString(n)>>
    ELSE Digits(n \div 10) \o <<ToString(n % 10)>>

\* the number a sequence of digits writes
RECURSIVE DigitsValue(_)
DigitsValue(ds) ==
    IF ds = <<>> THEN 0
    ELSE 10 * DigitsValue(SubSeq(ds, 1, Len(ds) - 1)) + DigitValue(ds[Len(ds)])

\* a request object with identifier "i" and pad further bytes
RECURSIVE Padding(_)
Padding(pad) == IF pad = 0 THEN <<>> ELSE <<" ">> \o Padding(pad - 1)

RequestBody(pad) == <<"{", "i">> \o Padding(pad) \o <<"}">>

\* the message as written on the stream
Frame(body) == LengthField \o Digits(Len(body)) \o HeaderTerminator \o body

\* a stream cut after its i-th and after its j-th byte
SplitAt(stream, i, j) ==
    << SubSeq(stream, 1, i), SubSeq(stream, i + 1, j), SubSeq(stream, j + 1, Len(stream)) >>

\* where the first header terminator of the buffer starts, 0 if there is none
FindTerminator(buffer) ==
    LET at == { i \in 1..(Len(buffer) - 3) : SubSeq(buffer, i, i + 3) = HeaderTerminator }
    IN IF at = {} THEN 0 ELSE CHOOSE i \in at : \A k \in at : i <= k

\* the byte length a header block gives, -1 if it has no parseable length field
ParseLength(header) ==
    LET n == Len(LengthField)
    IN IF /\ Len(header) > n
          /\ SubSeq(header, 1, n) = LengthField
          /\ \A k \in (n + 1)..Len(header) : header[k] \in DigitChars
       THEN DigitsValue(SubSeq(header, n + 1, Len(header)))
       ELSE -1

\* faulty variant of AppendChunk: each read replaces what was buffered
AppendChunkFresh(buffer, chunk) == chunk

\* the server buffers raw bytes
AppendChunk(buffer, chunk) == buffer \o chunk

\* while a complete header-plus-body is available: decode exactly that
\* message, advance the buffer past it, and loop; a header without a
\* parseable length is discarded up to and including its terminator
RECURSIVE DecodeLoop(_, _)
DecodeLoop(buffer, messages) ==
    LET t == FindTerminator(buffer)
    IN IF t = 0
       THEN [messages |-> messages, buffer |-> buffer]
       ELSE LET n == ParseLength(SubSeq(buffer, 1, t - 1))
                rest == SubSeq(buffer, t + Len(HeaderTerminator), Len(buffer))
            IN IF n < 0
               THEN DecodeLoop(rest, messages)
               ELSE IF Len(rest) < n
                    THEN [messages |-> messages, buffer |-> buffer]
                    ELSE DecodeLoop(SubSeq(rest, n + 1, Len(rest)),
                                    Append(messages, SubSeq(rest, 1, n)))

\* a body is a structured object when it is enclosed in braces
ParsesAsObject(body) ==
    /\ Len(body) >= 2
    /\ body[1] = "{"
    /\ body[Len(body)] = "}"

HasIdentifier(body) == \E k \in 1..Len(body) : body[k] = "i"

\* what is dispatched for the decoded messages: requests and notifications
Dispatched(messages) == SelectSeq(messages, ParsesAsObject)

ReplyTo(body) ==
    IF ~ParsesAsObject(body) THEN <<[fault |-> "parse"]>>
    ELSE IF HasIdentifier(body) THEN <<[id |-> "i"]>>
    ELSE <<>>

\* the replies to the decoded messages, in order: one for a request with an
\* identifier, none for a notification, a parse fault without identifier
\* for a body that is no object
RECURSIVE Replies(_)
Replies(messages) ==
    IF messages = <<>> THEN <<>>
    ELSE ReplyTo(Head(messages)) \o Replies(Tail(messages))

\* largest number of padding bytes in a request body
MaxPadding == 2

\* one complete framed request, cut into three chunks at two boundaries
Streams ==
    { [ open |-> TRUE, sent |-> RequestBody(pad),
        chunks |-> SplitAt(Frame(RequestBody(pad)), i, j),
        delivered |-> <<>>, buffer |-> <<>>, dispatched |-> <<>>, replies |-> <<>> ]
      : <<pad, i, j>> \in
          { x \in (0..MaxPadding) \X (1..(Len(Frame(RequestBody(MaxPadding))) - 1))
                                  \X (1..(Len(Frame(RequestBody(MaxPadding))) - 1))
              : x[2] < x[3] /\ x[3] < Len(Frame(RequestBody(x[1]))) } }

InitFraming ==
    /\ ServerIdle
    /\ estimator = NoEstimate
    /\ transport \in Streams
    /\ loop = NoLoop

\* one read of the stream: the chunk is buffered, every complete message is
\* decoded, dispatched and replied to
Deliver ==
    /\ transport.chunks # <<>>
    /\ LET d == DecodeLoop(AppendChunk(transport.buffer, Head(transport.chunks)), <<>>)
       IN transport' =
            [transport EXCEPT !.chunks = Tail(@),
                              !.delivered = Append(@, Head(transport.chunks)),
                              !.buffer = d.buffer,
                              !.dispatched = @ \o Dispatched(d.messages),
                              !.replies = @ \o Replies(d.messages)]
    /\ UNCHANGED <<stateFile, detailFiles, request, response, saved, estimator, loop>>

NextFraming == Deliver

SpecFraming == InitFraming /\ [][NextFraming]_vars

\* ---- a batch of tool calls on the one processing loop -----------------------
\* The protocol server considers the next message only when the message
\* before it has been dispatched and replied to. The call-tool handler is
\* what it dispatches a call to; a handler gives the loop back before its
\* return only where it awaits.

\* largest number of requests in a batch
MaxBatch == 3

\* the requests of a batch
BatchRequests ==
    { CallRequest("unfold_section", [fold_id |-> <<"fold-001">>]),
      CallRequest("fold_section", [fold_id |-> <<"fold-001">>]),
      CallRequest("write_summary", [fold_id |-> <<"fold-001">>, summary |-> "db>impl: pool.cfg | ok"]),
      CallRequest("write_summary", [fold_id |-> <<"fold-002">>, summary |-> ""]),
      CallRequest("list_folds", <<>>) }

\* the call-tool handler: the switch and the case it runs, on the state it loaded
CallTool(req, file, files) ==
    CASE SwitchCase(req.name) = "unfold_section" -> unfold_section(req.arguments, file, files)
      [] SwitchCase(req.name) = "fold_section" -> fold_section(req.arguments, file, files)
      [] SwitchCase(req.name) = "list_folds" -> list_folds(file, files)
      [] SwitchCase(req.name) = "write_summary" -> write_summary(req.arguments, file, files)
      [] OTHER -> Outcome(unknown_tool(req.name), file, files, FALSE)

\* faulty variant of HandlerAwaits: the handler awaits between its
\* loadState and its saveState
HandlerAwaitsAfterLoad(name) == TRUE

\* whether the handler gives the loop back between its loadState and its
\* saveState: no case of the switch awaits, all storage access is synchronous
HandlerAwaits(name) == FALSE

\* the index files a batch starts from: two records, the first of them
\* fold-001, the total right or stale
BatchStateFiles ==
    { f \in StateFiles :
        /\ f.kind = "json"
        /\ Len(f.store.folds) = 2
        /\ f.store.folds[1].id = "fold-001" }

\* every detail file present
AllDetailFiles == CHOOSE d \in DetailDirs : \A id \in CanonicalIds : DetailFilePath(id) \in DOMAIN d

InitSerial ==
    /\ stateFile \in BatchStateFiles
    /\ detailFiles = AllDetailFiles
    /\ request = NoRequest
    /\ response = NoResponse
    /\ saved = FALSE
    /\ estimator = NoEstimate
    /\ transport = NoTransport
    /\ loop = [batch |-> TRUE, initial |-> stateFile, requests |-> <<>>, handled |-> 0,
               pending |-> <<>>, running |-> <<>>]

\* a request arrives: loop.requests keeps the requests in arrival order,
\* loop.pending those not yet dispatched
Arrive ==
    /\ Len(loop.requests) < MaxBatch
    /\ \E req \in BatchRequests :
         loop' = [loop EXCEPT !.requests = Append(@, req),
                              !.pending = Append(@, req)]
    /\ UNCHANGED <<stateFile, detailFiles, request, response, saved, estimator, transport>>

\* the server dispatches the oldest pending request when no handler holds
\* the loop: the handler runs up to and including its loadState
Begin ==
    /\ loop.pending # <<>>
    /\ \A k \in 1..Len(loop.running) : HandlerAwaits(loop.running[k].req.name)
    /\ loop' = [loop EXCEPT !.pending = Tail(@),
                            !.running = Append(@, [req |-> Head(loop.pending),
                                                   loaded |-> stateFile])]
    /\ UNCHANGED <<stateFile, detailFiles, request, response, saved, estimator, transport>>

\* a running handler modifies what it loaded, saves and returns its result
Finish ==
    \E k \in 1..Len(loop.running) :
        LET call == loop.running[k]
            out == CallTool(call.req, call.loaded, detailFiles)
        IN /\ stateFile' = IF out.saved THEN out.file ELSE stateFile
           /\ detailFiles' = out.files
           /\ request' = call.req
           /\ response' = out.result
           /\ saved' = out.saved
           /\ loop' = [loop EXCEPT !.handled = @ + 1,
                                   !.running =
                                      SubSeq(@, 1, k - 1) \o SubSeq(@, k + 1, Len(@))]
           /\ UNCHANGED <<estimator, transport>>

NextSerial ==
    \/ Arrive
    \/ Begin
    \/ Finish

SpecSerial == InitSerial /\ [][NextSerial]_vars

\* ---- the properties checked ------------------------------------------------

IsCall(req) == req.method = "tools/call"
IsCallOf(req, name) == IsCall(req) /\ req.name = name
IsText(res) == "content" \in DOMAIN res
TextOf(res) == res.content[1].text
HasText(res, text) == IsText(res) /\ TextOf(res) = text

\* the store an index file persists (none: no records)
Readable(file) == file.kind = "json"
FoldsOf(file) == IF Readable(file) THEN file.store.folds ELSE <<>>
PositionOf(file, id) ==
    IF \E i \in 1..Len(FoldsOf(file)) : FoldsOf(file)[i].id = id
    THEN CHOOSE i \in 1..Len(FoldsOf(file)) : FoldsOf(file)[i].id = id
    ELSE 0
InIndex(file, id) == PositionOf(file, id) # 0

\* sum of summary_tokens over the records (a record without one adds nothing)
RECURSIVE SumOfSummaryTokens(_)
SumOfSummaryTokens(folds) ==
    IF folds = <<>> THEN 0
    ELSE (IF "summary_tokens" \in DOMAIN folds[1] THEN folds[1].summary_tokens ELSE 0)
         + SumOfSummaryTokens(Tail(folds))

TotalIsSum(file) ==
    file.store.total_summary_tokens = SumOfSummaryTokens(file.store.folds)

\* max(1, round(L / 3.75)): the whole number nearest to 4L/15, at least 1
ExpectedTokens(L) ==
    IF 8 * L < 45 THEN 1
    ELSE CHOOSE n \in 1..L : 30 * n - 15 <= 8 * L /\ 8 * L < 30 * n + 15

NotFoundOnDisk(id) == "Error: fold '" \o id \o "' not found on disk."
NotFoundInState(id) == "Error: fold '" \o id \o "' not found in state."
CatalogNames == {"unfold_section", "fold_section", "list_folds", "write_summary"}

\* C1 (as stated): immediately after every call that persisted the store
\* (unfold_section, fold_section or write_summary), the persisted
\* total_summary_tokens equals the sum of summary_tokens over the records.
C1_TotalIsSumAfterEveryMutation ==
    saved => TotalIsSum(stateFile)

\* C1 (amended): immediately after every successful write_summary the
\* persisted total_summary_tokens equals the sum of summary_tokens over the
\* records; a successful unfold_section or fold_section persists
\* total_summary_tokens and every summary_tokens as it found them, so the
\* total equals the sum after it exactly when it did before.
C1_TotalIsSumAfterWriteSummary ==
    [][ saved' =>
          IF request'.name = "write_summary"
          THEN TotalIsSum(stateFile')
          ELSE /\ Readable(stateFile)
               /\ stateFile'.store.total_summary_tokens
                     = stateFile.store.total_summary_tokens
               /\ SumOfSummaryTokens(stateFile'.store.folds)
                     = SumOfSummaryTokens(stateFile.store.folds)
               /\ TotalIsSum(stateFile') <=> TotalIsSum(stateFile) ]_vars

\* C1 witness: write_summary has rewritten one of two records and the
\* persisted total is the sum of both counts.
C1_Witness ==
    /\ IsCallOf(request, "write_summary")
    /\ saved
    /\ Len(stateFile.store.folds) = 2
    /\ stateFile.store.total_summary_tokens = 11
    /\ TotalIsSum(stateFile)

\* C2 (as stated): unfold_section, fold_section or write_summary with a fold
\* id that the index does not hold returns a not-found text and does not
\* write the store, whether or not a detail file of that id exists.
C2_AbsentIdIsNotFound ==
    ( /\ IsCall(request)
      /\ request.name \in {"unfold_section", "fold_section", "write_summary"}
      /\ ~InIndex(stateFile, IdText(request.arguments.fold_id)) )
    => /\ \/ HasText(response, NotFoundOnDisk(IdText(request.arguments.fold_id)))
          \/ HasText(response, NotFoundInState(IdText(request.arguments.fold_id)))
       /\ ~saved

\* C3: unfold_section on an id that the index holds and that has no detail
\* file returns the not-found text as an ordinary text result, leaves the
\* index file as it was (so the record's status too) and does not write it.
C3_UnfoldWithoutDetail ==
    [][ ( /\ IsCallOf(request', "unfold_section")
          /\ InIndex(stateFile, IdText(request'.arguments.fold_id))
          /\ ~IsDetailFile(detailFiles, DetailPath(request'.arguments.fold_id)) )
        => /\ response' = textResult(NotFoundOnDisk(IdText(request'.arguments.fold_id)))
           /\ stateFile' = stateFile
           /\ ~saved' ]_vars

\* C3 witness: unfold_section of an indexed, folded record without a detail
\* file has answered not-found.
C3_Witness ==
    /\ IsCallOf(request, "unfold_section")
    /\ InIndex(stateFile, IdText(request.arguments.fold_id))
    /\ ~IsDetailFile(detailFiles, DetailPath(request.arguments.fold_id))
    /\ FoldsOf(stateFile)[PositionOf(stateFile, IdText(request.arguments.fold_id))].status
          = "folded"
    /\ HasText(response, NotFoundOnDisk(IdText(request.arguments.fold_id)))

\* C4: in every step the status of a record changes only if the step is an
\* unfold_section or fold_section call that names the record's id and
\* persists the store; no step adds or removes a record.
C4_StatusChangesOnlyByFoldUnfold ==
    [][ /\ Len(FoldsOf(stateFile')) = Len(FoldsOf(stateFile))
        /\ \A i \in 1..Len(FoldsOf(stateFile)) :
              FoldsOf(stateFile')[i].status # FoldsOf(stateFile)[i].status
              => /\ IsCall(request')
                 /\ request'.name \in {"unfold_section", "fold_section"}
                 /\ IdText(request'.arguments.fold_id) = FoldsOf(stateFile)[i].id
                 /\ saved' ]_vars

\* C4 witness: fold_section has folded one record of an index whose other
\* record is still unfolded.
C4_Witness ==
    /\ IsCallOf(request, "fold_section")
    /\ saved
    /\ Len(FoldsOf(stateFile)) = 2
    /\ \E i \in 1..2 :
          /\ FoldsOf(stateFile)[i].id = IdText(request.arguments.fold_id)
          /\ FoldsOf(stateFile)[i].status = "folded"
          /\ FoldsOf(stateFile)[3 - i].status = "unfolded"

\* C5: unfold_section on an id with a record and a detail file returns
\* "[<id> UNFOLDED - N tokens]", a blank line and the detail text, N being
\* the estimate of the detail text (not the record's detail_tokens), and the
\* persisted record is unfolded.
C5_UnfoldReturnsDetail ==
    ( /\ IsCallOf(request, "unfold_section")
      /\ InIndex(stateFile, IdText(request.arguments.fold_id))
      /\ IsDetailFile(detailFiles, DetailPath(request.arguments.fold_id)) )
    => LET id == IdText(request.arguments.fold_id)
           detail == detailFiles[DetailPath(request.arguments.fold_id)].data
       IN /\ response = textResult("[" \o id \o " UNFOLDED - "
                                       \o ToString(ExpectedTokens(Len(detail)))
                                       \o " tokens]\n\n" \o detail)
          /\ saved
          /\ FoldsOf(stateFile)[PositionOf(stateFile, id)].status = "unfolded"

\* C5 witness: unfold_section has returned the 14 characters of fold-001's
\* detail as 4 tokens although the record stores detail_tokens = 3200.
C5_Witness ==
    /\ IsCallOf(request, "unfold_section")
    /\ InIndex(stateFile, "fold-001")
    /\ FoldsOf(stateFile)[PositionOf(stateFile, "fold-001")].detail_tokens = 3200
    /\ HasText(response, "[fold-001 UNFOLDED - 4 tokens]\n\nfull text here")

\* the listing of an index whose record at position i shows summary S
RECURSIVE EntriesShowing(_, _, _, _)
EntriesShowing(folds, j, i, S) ==
    IF j > Len(folds) THEN ""
    ELSE FoldEntry(IF j = i THEN [folds[j] EXCEPT !.summary = S] ELSE folds[j])
         \o EntriesShowing(folds, j + 1, i, S)

ListingShowing(folds, i, S) ==
    "[FOLD INDEX - " \o ToString(Len(folds)) \o " sections, "
        \o ToString(SumField(folds, "detail_tokens")) \o " tokens stored]\n\n"
        \o EntriesShowing(folds, 1, i, S)

\* C6: after write_summary(id, S) on an indexed id, the persisted record's
\* summary_tokens is the estimate of S, and a list_folds that follows shows
\* S as the summary of that record.
C6_WriteSummaryThenList ==
    [][ ( /\ IsCallOf(request, "write_summary")
          /\ InIndex(stateFile, IdText(request.arguments.fold_id)) )
        => LET i == PositionOf(stateFile, IdText(request.arguments.fold_id))
               S == request.arguments.summary
           IN /\ FoldsOf(stateFile)[i].summary_tokens = ExpectedTokens(Len(S))
              /\ IsCallOf(request', "list_folds")
                 => response' = textResult(ListingShowing(FoldsOf(stateFile), i, S)) ]_vars

\* C6 witness: write_summary has stored a 22-character summary for fold-002
\* as 6 tokens, replacing the stale count of an unfolded record.
C6_Witness ==
    /\ IsCallOf(request, "write_summary")
    /\ request.arguments.summary = "db>impl: pool.cfg | ok"
    /\ saved
    /\ InIndex(stateFile, "fold-002")
    /\ IdText(request.arguments.fold_id) = "fold-002"
    /\ FoldsOf(stateFile)[PositionOf(stateFile, "fold-002")].summary
          = "db>impl: pool.cfg | ok"
    /\ FoldsOf(stateFile)[PositionOf(stateFile, "fold-002")].summary_tokens = 6

\* C7: issuing the same fold_section, unfold_section or write_summary call
\* again right after it was handled leaves the index file as it is and
\* returns the same result; and fold_section on an already folded record
\* leaves the store as it is and returns the confirmation text with the
\* record's summary.
C7_RetryIsIdempotent ==
    [][ /\ ( /\ IsCall(request)
             /\ request.name \in {"unfold_section", "fold_section", "write_summary"}
             /\ request' = request )
           => /\ stateFile' = stateFile
              /\ response' = response
        /\ ( /\ IsCallOf(request', "fold_section")
             /\ InIndex(stateFile, IdText(request'.arguments.fold_id))
             /\ FoldsOf(stateFile)[PositionOf(stateFile,
                    IdText(request'.arguments.fold_id))].status = "folded" )
           => LET id == IdText(request'.arguments.fold_id)
              IN /\ stateFile'.store = stateFile.store
                 /\ response' = textResult("[" \o id \o " FOLDED]\nSummary: "
                        \o FoldsOf(stateFile)[PositionOf(stateFile, id)].summary) ]_vars

\* C7 witness: fold_section has folded an indexed record, so the same call
\* can be issued again on a folded record.
C7_Witness ==
    /\ IsCallOf(request, "fold_section")
    /\ saved
    /\ InIndex(stateFile, IdText(request.arguments.fold_id))
    /\ FoldsOf(stateFile)[PositionOf(stateFile, IdText(request.arguments.fold_id))].status
          = "folded"
    /\ HasText(response, "[fold-002 FOLDED]\nSummary: auth>fix")

\* C8: when the index file is missing or unparseable, loading yields the
\* empty store (version 1, no folds), and every tool call returns a text
\* result: list_folds the no-folds message, fold_section and write_summary
\* the not-found text.
C8_UnreadableIndexIsEmptyStore ==
    ~Readable(stateFile)
    => /\ loadState(stateFile)
             = [version |-> 1, session_id |-> Null, total_summary_tokens |-> 0,
                folds |-> <<>>]
       /\ IsCall(request)
          => /\ IsText(response)
             /\ request.name = "list_folds"
                => TextOf(response) = "No folds stored yet."
             /\ request.name \in {"fold_section", "write_summary"}
                => TextOf(response) = NotFoundInState(IdText(request.arguments.fold_id))
             /\ ~saved

\* C8 witness: list_folds has answered the no-folds message over an
\* unparseable index file.
C8_Witness ==
    /\ stateFile.kind = "corrupt"
    /\ IsCallOf(request, "list_folds")
    /\ HasText(response, "No folds stored yet.")

\* the names of the tools a list-tools reply offers
NamesOf(tools) == {tools[i].name : i \in 1..Len(tools)}

\* C9 (as stated): the catalog holds exactly the five operations guide,
\* unfold_section, fold_section, list_folds and write_summary, and a call of
\* any of them, guide included, never yields the unknown-tool result.
C9_CatalogOfFive ==
    /\ request.method = "tools/list"
       => /\ NamesOf(response.tools) = CatalogNames \cup {"guide"}
          /\ Len(response.tools) = 5
    /\ ( IsCall(request) /\ request.name \in CatalogNames \cup {"guide"} )
       => /\ IsText(response)
          /\ TextOf(response) # "Unknown tool: " \o request.name

\* C10: a call of a tool name outside the catalog returns the plain text
\* "Unknown tool: <name>", not a protocol error, and neither changes nor
\* writes the index file.
C10_UnknownToolIsText ==
    [][ ( IsCall(request') /\ request'.name \notin CatalogNames )
        => /\ response' = textResult("Unknown tool: " \o request'.name)
           /\ "error" \notin DOMAIN response'
           /\ stateFile' = stateFile
           /\ ~saved' ]_vars

\* C10 witness: a call of frobnicate has been answered with the unknown-tool
\* text over a readable index.
C10_Witness ==
    /\ IsCallOf(request, "frobnicate")
    /\ Readable(stateFile)
    /\ HasText(response, "Unknown tool: frobnicate")

\* the ids of the records an index file persists, in store order
IdsOf(file) == [i \in 1..Len(FoldsOf(file)) |-> FoldsOf(file)[i].id]

\* C11: every step on a readable index leaves a readable index that holds
\* the same record ids in the same order (no record is added, deleted,
\* duplicated or moved), so the ids stay unique.
C11_RecordsKeepIdsAndOrder ==
    [][ Readable(stateFile)
        => /\ Readable(stateFile')
           /\ IdsOf(stateFile') = IdsOf(stateFile)
           /\ \A i, j \in 1..Len(IdsOf(stateFile')) :
                 IdsOf(stateFile')[i] = IdsOf(stateFile')[j] => i = j ]_vars

\* C11 witness: unfold_section has persisted the second record of an index
\* that still lists fold-001 before fold-003.
C11_Witness ==
    /\ IsCallOf(request, "unfold_section")
    /\ saved
    /\ IdText(request.arguments.fold_id) = "fold-003"
    /\ IdsOf(stateFile) = <<"fold-001", "fold-003">>
    /\ FoldsOf(stateFile)[1].status = "folded"

\* the fields of a record that no operation may touch, as far as present
FrameFields == {"id", "detail_tokens", "relevance_score", "files_touched"}
SameOn(new, old, keys) ==
    /\ DOMAIN new \cap keys = DOMAIN old \cap keys
    /\ \A k \in DOMAIN old \cap keys : new[k] = old[k]

\* C14: list_folds writes nothing; a persisting unfold_section or
\* fold_section changes nothing but the status of the record it names; a
\* persisting write_summary changes nothing but summary and summary_tokens
\* of the record it names and total_summary_tokens; and no step changes
\* version, session_id or any record's id, detail_tokens, relevance_score or
\* files_touched.
C14_OperationsChangeOnlyTheirFields ==
    [][ /\ IsCallOf(request', "list_folds")
           => stateFile' = stateFile /\ ~saved'
        /\ ~saved' => stateFile' = stateFile
        /\ saved'
           => /\ Readable(stateFile) /\ Readable(stateFile')
              /\ stateFile'.store.version = stateFile.store.version
              /\ stateFile'.store.session_id = stateFile.store.session_id
              /\ Len(FoldsOf(stateFile')) = Len(FoldsOf(stateFile))
              /\ LET old == FoldsOf(stateFile)
                     new == FoldsOf(stateFile')
                     target == PositionOf(stateFile, IdText(request'.arguments.fold_id))
                     own == IF request'.name = "write_summary"
                            THEN {"summary", "summary_tokens"}
                            ELSE {"status"}
                 IN /\ target # 0
                    /\ \A j \in 1..Len(old) :
                          /\ SameOn(new[j], old[j], FrameFields)
                          /\ j # target => new[j] = old[j]
                          /\ j = target
                             => SameOn(new[j], old[j],
                                       (DOMAIN new[j] \cup DOMAIN old[j]) \ own)
                    /\ request'.name # "write_summary"
                       => stateFile'.store.total_summary_tokens
                             = stateFile.store.total_summary_tokens ]_vars

\* C14 witness: write_summary has rewritten the summary of fold-001, whose
\* detail_tokens, relevance_score and files_touched are as the writer set
\* them, in a store that keeps its session_id.
C14_Witness ==
    /\ IsCallOf(request, "write_summary")
    /\ saved
    /\ IdText(request.arguments.fold_id) = "fold-001"
    /\ stateFile.store.session_id = SessionId
    /\ LET fold == FoldsOf(stateFile)[PositionOf(stateFile, "fold-001")]
       IN /\ fold.summary = "db>impl: pool.cfg | ok"
          /\ fold.detail_tokens = 3200
          /\ fold.relevance_score = 15
          /\ fold.files_touched = <<"auth.mid.ts", "auth.svc.ts">>

\* C15: a persisting write_summary sets total_summary_tokens to the sum of
\* summary_tokens over the records as they stand after the update, whatever
\* total was stored before: also when the stored total was not the sum of
\* the stored counts.
C15_WriteSummaryRecomputesTotal ==
    [][ ( IsCallOf(request', "write_summary") /\ saved' )
        => LET i == PositionOf(stateFile, IdText(request'.arguments.fold_id))
               others == SumOfSummaryTokens(FoldsOf(stateFile))
                           - (IF "summary_tokens" \in DOMAIN FoldsOf(stateFile)[i]
                              THEN FoldsOf(stateFile)[i].summary_tokens ELSE 0)
           IN /\ stateFile'.store.total_summary_tokens
                    = others + ExpectedTokens(Len(request'.arguments.summary))
              /\ stateFile'.store.total_summary_tokens
                    = SumOfSummaryTokens(FoldsOf(stateFile')) ]_vars

\* C15 witness: write_summary of the empty summary has left a total of 6 =
\* 1 + 5 in a two-record store (no initial store has that total).
C15_Witness ==
    /\ IsCallOf(request, "write_summary")
    /\ request.arguments.summary = ""
    /\ saved
    /\ Len(FoldsOf(stateFile)) = 2
    /\ stateFile.store.total_summary_tokens = 6
    /\ \E i \in 1..2 : /\ "summary_tokens" \in DOMAIN FoldsOf(stateFile)[i]
                       /\ FoldsOf(stateFile)[i].summary_tokens = 5

\* sum of detail_tokens over the records (a record without one adds nothing)
RECURSIVE SumOfDetailTokens(_)
SumOfDetailTokens(folds) ==
    IF folds = <<>> THEN 0
    ELSE (IF "detail_tokens" \in DOMAIN folds[1] THEN folds[1].detail_tokens ELSE 0)
         + SumOfDetailTokens(Tail(folds))

\* the entries of the records from position j on, in store order
RECURSIVE EntriesFrom(_, _)
EntriesFrom(folds, j) ==
    IF j > Len(folds) THEN ""
    ELSE FoldEntry(folds[j]) \o EntriesFrom(folds, j + 1)

\* C17: list_folds on a store without records returns exactly the no-folds
\* message; on a store with records it returns a header with the number of
\* records and the sum of their detail_tokens (a missing one counting 0),
\* then one entry per record in store order.
C17_ListFoldsHeaderAndEntries ==
    IsCallOf(request, "list_folds")
    => IF Len(FoldsOf(stateFile)) = 0
       THEN response = textResult("No folds stored yet.")
       ELSE response =
              textResult("[FOLD INDEX - " \o ToString(Len(FoldsOf(stateFile)))
                            \o " sections, "
                            \o ToString(SumOfDetailTokens(FoldsOf(stateFile)))
                            \o " tokens stored]\n\n"
                            \o EntriesFrom(FoldsOf(stateFile), 1))

\* C17 witness: list_folds has listed fold-001 (3200 tokens) and fold-003
\* (no detail_tokens) under a header of 2 sections and 3200 tokens.
C17_Witness ==
    /\ IsCallOf(request, "list_folds")
    /\ IdsOf(stateFile) = <<"fold-001", "fold-003">>
    /\ FoldsOf(stateFile)[1].status = "unfolded"
    /\ FoldsOf(stateFile)[1].summary = "auth>fix"
    /\ FoldsOf(stateFile)[2].status = "folded"
    /\ FoldsOf(stateFile)[2].summary = ""
    /\ HasText(response,
         "[FOLD INDEX - 2 sections, 3200 tokens stored]\n\n"
         \o "F001 | UNFOLDED | 3200 tok | rel:0.15\n  auth>fix\n"
         \o "  files: auth.mid.ts, auth.svc.ts\n\n"
         \o "F003 | FOLDED | 0 tok | rel:0.00\n  \n\n")

\* C18 (as stated): unfold_section and fold_section with a fold id that is
\* not of the canonical form fold-NNN return a not-found text (no detail
\* content) and do not write the store.
C18_OnlyCanonicalIds ==
    ( /\ IsCall(request)
      /\ request.name \in {"unfold_section", "fold_section"}
      /\ IdText(request.arguments.fold_id) \notin CanonicalIds )
    => /\ \/ HasText(response, NotFoundOnDisk(IdText(request.arguments.fold_id)))
          \/ HasText(response, NotFoundInState(IdText(request.arguments.fold_id)))
       /\ ~saved

\* C19: while the index file is missing or unparseable no step writes it:
\* the file stays as it is and no call reaches saveState.
C19_UnreadableIndexIsNeverWritten ==
    [][ ~Readable(stateFile) => stateFile' = stateFile /\ ~saved' ]_vars

\* C19 witness: write_summary for fold-001 has been answered not-found over
\* a missing index file, which is still missing.
C19_Witness ==
    /\ stateFile.kind = "missing"
    /\ IsCallOf(request, "write_summary")
    /\ ~saved
    /\ HasText(response, NotFoundInState("fold-001"))

\* round(4L/15): the whole number n with n - 1/2 <= 4L/15 < n + 1/2
RoundedFifteenths(L) ==
    CHOOSE n \in 0..L : 30 * n - 15 <= 8 * L /\ 8 * L < 30 * n + 15

\* C12: for every text of L <= MaxTextLen characters estimateTokens returns
\* max(1, round(L / 3.75)), which is max(1, round(4L/15)) with 4L/15 never
\* at an exact half; and it returns 1 for the empty and for an absent text.
C12_EstimateIsRoundedLength ==
    ( "tokens" \in DOMAIN estimator )
    => IF estimator.text = Undefined \/ estimator.text = ""
       THEN estimator.tokens = 1
       ELSE LET L == Len(estimator.text)
            IN /\ (8 * L) % 30 # 15
               /\ estimator.tokens
                     = IF RoundedFifteenths(L) < 1 THEN 1 ELSE RoundedFifteenths(L)

\* C12 witness: estimateTokens has returned 15 for a text of 58 characters
\* (58 / 3.75 = 15.47).
C12_Witness ==
    /\ "tokens" \in DOMAIN estimator
    /\ estimator.text # Undefined
    /\ Len(estimator.text) = 58
    /\ estimator.tokens = 15

\* C13: of one complete framed request delivered in three chunks nothing is
\* dispatched or answered before the last chunk, nothing is ever dispatched
\* or answered twice, and once the last chunk is delivered exactly the
\* request sent has been dispatched once and answered once, with nothing
\* left in the buffer.
C13_SplitMessageDecodedOnce ==
    ( "sent" \in DOMAIN transport )
    => /\ Len(transport.dispatched) <= 1
       /\ Len(transport.replies) <= 1
       /\ transport.chunks # <<>>
            => transport.dispatched = <<>> /\ transport.replies = <<>>
       /\ transport.chunks = <<>>
            => /\ transport.dispatched = <<transport.sent>>
               /\ transport.replies = <<[id |-> "i"]>>
               /\ transport.buffer = <<>>

\* C13 witness: a request was delivered in three chunks, the first ending
\* inside the header terminator and the last starting inside the body, and
\* it has been dispatched and answered.
C13_Witness ==
    /\ "sent" \in DOMAIN transport
    /\ Len(transport.delivered) = 3
    /\ transport.delivered[1][Len(transport.delivered[1])] = CR
    /\ Len(transport.delivered[3]) < Len(transport.sent)
    /\ transport.dispatched = <<transport.sent>>
    /\ Len(transport.replies) = 1

\* the position in reqs of the last request with one of the names and the
\* fold id, 0 if there is none
LastNaming(reqs, names, id) ==
    LET at == { k \in 1..Len(reqs) :
                  reqs[k].name \in names /\ IdText(reqs[k].arguments.fold_id) = id }
    IN IF at = {} THEN 0 ELSE CHOOSE k \in at : \A j \in at : j <= k

\* a record after the requests, one after the other: its status is the one
\* the last fold or unfold naming it asked for, its summary the one the
\* last write_summary naming it gave, with the estimate of that summary
SerialRecord(rec, reqs) ==
    LET s == LastNaming(reqs, {"unfold_section", "fold_section"}, rec.id)
        w == LastNaming(reqs, {"write_summary"}, rec.id)
    IN [k \in DOMAIN rec \cup (IF w = 0 THEN {} ELSE {"summary", "summary_tokens"}) |->
          IF k = "status" /\ s # 0
          THEN (IF reqs[s].name = "fold_section" THEN "folded" ELSE "unfolded")
          ELSE IF k = "summary" /\ w # 0 THEN reqs[w].arguments.summary
          ELSE IF k = "summary_tokens" /\ w # 0
               THEN ExpectedTokens(Len(reqs[w].arguments.summary))
          ELSE rec[k]]

\* the index file after the requests, one after the other in the order of
\* reqs, every detail file being on disk: the records in their places, the
\* total the sum of the records' counts once a write_summary named a record
SerialFile(initial, reqs) ==
    LET folds == [i \in 1..Len(initial.store.folds) |->
                     SerialRecord(initial.store.folds[i], reqs)]
        wrote == \E i \in 1..Len(folds) : LastNaming(reqs, {"write_summary"}, folds[i].id) # 0
    IN [kind |-> "json",
        store |-> [initial.store EXCEPT
                     !.folds = folds,
                     !.total_summary_tokens =
                        IF wrote THEN SumOfSummaryTokens(folds) ELSE @]]

====
